---- MODULE Spec2Model ----
(***************************************************************************)
(* Model of the oiling morphology engine: feature matching, rule ordering  *)
(* and composition, irregular lookup (morph_engine.py), lemma resolution   *)
(* and prompt handling (morph_rule_adapter.py, prompt2features.py,         *)
(* morphology.py) and paradigm inference / table building (morphology.py,  *)
(* utils.py).                                                              *)
(*                                                                         *)
(* A Python str is a sequence of one-character strings.  A Python dict is  *)
(* a sequence of [k, v] items with distinct keys, in insertion order.  A   *)
(* feature value is a tagged record: a str or None.                        *)
(***************************************************************************)
EXTENDS Integers, Sequences, FiniteSets, TLC

\* ------------------------------------------------------------------------
\* Bounds of the model
\* ------------------------------------------------------------------------
MaxRules == 3

\* The greatest number of features in a bundle given to _create_label
MaxFeatures == 2

\* The greatest number of rules added to a solution with add_rule
MaxSolutionRules == 1

\* ------------------------------------------------------------------------
\* Python values
\* ------------------------------------------------------------------------
\* U+2014, the placeholder glyph of a failed table cell, as one character
EmDash == "EMDASH"

Chars ==
    { "a", "b", "c", "d", "e", "f", "g", "h", "i", "j", "k", "l", "m", "n", "o", "p",
      "q", "r", "s", "t", "u", "v", "w", "x", "y", "z", "N", "S", "T", "E", "M",
      "(", "=", "|", "{", "}", " ", EmDash }

\* ord(c) for the characters the model uses
CodePoint(c) ==
    CASE c = " " -> 32
      [] c = "(" -> 40
      [] c = "=" -> 61
      [] c = "E" -> 69
      [] c = "M" -> 77
      [] c = "N" -> 78
      [] c = "S" -> 83
      [] c = "T" -> 84
      [] c = "a" -> 97
      [] c = "b" -> 98
      [] c = "c" -> 99
      [] c = "d" -> 100
      [] c = "e" -> 101
      [] c = "f" -> 102
      [] c = "g" -> 103
      [] c = "h" -> 104
      [] c = "i" -> 105
      [] c = "j" -> 106
      [] c = "k" -> 107
      [] c = "l" -> 108
      [] c = "m" -> 109
      [] c = "n" -> 110
      [] c = "o" -> 111
      [] c = "p" -> 112
      [] c = "q" -> 113
      [] c = "r" -> 114
      [] c = "s" -> 115
      [] c = "t" -> 116
      [] c = "u" -> 117
      [] c = "v" -> 118
      [] c = "w" -> 119
      [] c = "x" -> 120
      [] c = "y" -> 121
      [] c = "z" -> 122
      [] c = "{" -> 123
      [] c = "|" -> 124
      [] c = "}" -> 125
      [] c = EmDash -> 8212

\* str < str: lexicographic by code point, a proper prefix first
RECURSIVE StrLess(_, _)
StrLess(a, b) ==
    IF b = <<>> THEN FALSE
    ELSE IF a = <<>> THEN TRUE
    ELSE IF Head(a) = Head(b) THEN StrLess(Tail(a), Tail(b))
    ELSE CodePoint(Head(a)) < CodePoint(Head(b))

\* s[i:] of a str
Drop(s, n) == IF n >= Len(s) THEN <<>> ELSE SubSeq(s, n + 1, Len(s))

\* s.startswith(p)
StartsWith(s, p) == Len(p) <= Len(s) /\ SubSeq(s, 1, Len(p)) = p

\* str.replace(old, new) for a non-empty old: leftmost non-overlapping occurrences
RECURSIVE StrReplace(_, _, _)
StrReplace(s, old, new) ==
    IF s = <<>> THEN <<>>
    ELSE IF StartsWith(s, old) THEN new \o StrReplace(Drop(s, Len(old)), old, new)
    ELSE <<Head(s)>> \o StrReplace(Tail(s), old, new)

\* A feature value: a str, or None
StrV(s) == [tag |-> "str", s |-> s]
NoneV == [tag |-> "none", s |-> <<>>]

\* str(value), as an f-string renders it
PyStr(v) == IF v.tag = "none" THEN <<"N", "o", "n", "e">> ELSE v.s

\* ------------------------------------------------------------------------
\* dict operations on feature bundles
\* ------------------------------------------------------------------------
Item(k, v) == [k |-> k, v |-> v]

\* key in d
HasKey(d, k) == \E i \in 1..Len(d) : d[i].k = k

\* d.get(key): the stored value, None when the key is absent
DictGet(d, k) ==
    IF HasKey(d, k) THEN d[CHOOSE i \in 1..Len(d) : d[i].k = k].v ELSE NoneV

\* d1 == d2 of two dicts: the same items, whatever the insertion order
DictEq(d1, d2) ==
    {d1[i] : i \in 1..Len(d1)} = {d2[i] : i \in 1..Len(d2)}

\* d[key] = value on a dict under construction: overwrite in place or append
DictSet(d, k, v) ==
    IF HasKey(d, k)
    THEN [i \in 1..Len(d) |-> IF d[i].k = k THEN Item(k, v) ELSE d[i]]
    ELSE Append(d, Item(k, v))

\* {**a, **b}: a new dict, a's items then b's, b winning on equal keys
RECURSIVE DictMerge(_, _)
DictMerge(a, b) ==
    IF b = <<>> THEN a
    ELSE DictMerge(DictSet(a, Head(b).k, Head(b).v), Tail(b))

\* sorted(strs): stable insertion of each element before the first greater one
RECURSIVE InsertStr(_, _)
InsertStr(sorted, x) ==
    IF sorted = <<>> THEN <<x>>
    ELSE IF StrLess(x, Head(sorted)) THEN <<x>> \o sorted
    ELSE <<Head(sorted)>> \o InsertStr(Tail(sorted), x)

RECURSIVE SortStrs(_)
SortStrs(xs) ==
    IF xs = <<>> THEN <<>>
    ELSE InsertStr(SortStrs(SubSeq(xs, 1, Len(xs) - 1)), xs[Len(xs)])

\* sorted(d.keys())
SortedKeys(d) == SortStrs([i \in 1..Len(d) |-> d[i].k])

\* sep.join(parts): the parts from number i on, sep between neighbours
RECURSIVE JoinFrom(_, _, _)
JoinFrom(sep, parts, i) ==
    IF i > Len(parts) THEN <<>>
    ELSE IF i = Len(parts) THEN parts[i]
    ELSE parts[i] \o sep \o JoinFrom(sep, parts, i + 1)

Join(sep, parts) == JoinFrom(sep, parts, 1)

\* ------------------------------------------------------------------------
\* morph_engine.py: matching and the five rule kinds
\* ------------------------------------------------------------------------
\* _match(feats, need): the loop over need.items() with its early return
RECURSIVE MatchFrom(_, _, _)
MatchFrom(feats, need, i) ==
    IF i > Len(need) THEN TRUE
    ELSE IF DictGet(feats, need[i].k) # need[i].v THEN FALSE
    ELSE MatchFrom(feats, need, i + 1)

Match(feats, need) == MatchFrom(feats, need, 1)

\* MorphRule.applies
Applies(rule, feats) == Match(feats, rule.when)

\* The dataclass fields of the rule kinds; a field a kind lacks is ""
MkRule(kind, name, when, order, f1, f2) ==
    [kind |-> kind, name |-> name, when |-> when, order |-> order,
     prefix   |-> IF kind = "prefix" THEN f1 ELSE <<>>,
     suffix   |-> IF kind = "suffix" THEN f1 ELSE <<>>,
     pre      |-> IF kind = "circumfix" THEN f1 ELSE <<>>,
     post     |-> IF kind = "circumfix" THEN f2 ELSE <<>>,
     template |-> IF kind = "template" THEN f1 ELSE <<>>,
     pattern  |-> IF kind = "rewrite" THEN f1 ELSE <<>>,
     repl     |-> IF kind = "rewrite" THEN f2 ELSE <<>>]

\* The result of a call: a returned value, or a raised exception
Ret(v) == [raised |-> FALSE, value |-> v]
Raise == [raised |-> TRUE, value |-> <<>>]

\* The placeholder of TemplateRule
STEM == <<"{", "S", "T", "E", "M", "}">>

\* re.compile(pattern) succeeds.  The patterns of the model are literal
\* letters, or hold an unclosed "(" which makes re raise re.error.
ReCompiles(pattern) == \A i \in 1..Len(pattern) : pattern[i] # "("

\* re.sub(pattern, repl, surface) for those patterns.  The empty pattern
\* matches before every character and at the end: repl is put in each place.
ReSub(pattern, repl, surface) ==
    IF ~ReCompiles(pattern) THEN Raise
    ELSE IF pattern = <<>>
         THEN Ret(Join(repl, [i \in 1..Len(surface) + 2 |->
                                IF i = 1 \/ i = Len(surface) + 2 THEN <<>>
                                ELSE <<surface[i - 1]>>]))
    ELSE Ret(StrReplace(surface, pattern, repl))

\* Mutant of PrefixApply: the prefix is added whatever the features
PrefixApplyUnconditional(rule, surface, feats) ==
    Ret(rule.prefix \o surface)

PrefixApply(rule, surface, feats) ==
    Ret(IF Applies(rule, feats) THEN rule.prefix \o surface ELSE surface)

SuffixApply(rule, surface, feats) ==
    Ret(IF Applies(rule, feats) THEN surface \o rule.suffix ELSE surface)

CircumfixApply(rule, surface, feats) ==
    Ret(IF Applies(rule, feats) THEN rule.pre \o surface \o rule.post ELSE surface)

TemplateApply(rule, surface, feats) ==
    Ret(IF Applies(rule, feats) THEN StrReplace(rule.template, STEM, surface) ELSE surface)

RewriteApply(rule, surface, feats) ==
    IF ~Applies(rule, feats) \/ rule.pattern = <<>> THEN Ret(surface)
    ELSE ReSub(rule.pattern, rule.repl, surface)

\* rule.apply(surface, feats), dispatched on the rule's class
RuleApply(rule, surface, feats) ==
    CASE rule.kind = "prefix" -> PrefixApply(rule, surface, feats)
      [] rule.kind = "suffix" -> SuffixApply(rule, surface, feats)
      [] rule.kind = "circumfix" -> CircumfixApply(rule, surface, feats)
      [] rule.kind = "template" -> TemplateApply(rule, surface, feats)
      [] rule.kind = "rewrite" -> RewriteApply(rule, surface, feats)

\* ------------------------------------------------------------------------
\* morph_engine.py: Generator
\* ------------------------------------------------------------------------
\* Mutant of InsertByOrder: a rule goes before the rules of equal order
RECURSIVE InsertByOrderUnstable(_, _)
InsertByOrderUnstable(sorted, rule) ==
    IF sorted = <<>> THEN <<rule>>
    ELSE IF rule.order <= Head(sorted).order THEN <<rule>> \o sorted
    ELSE <<Head(sorted)>> \o InsertByOrderUnstable(Tail(sorted), rule)

\* sorted(list(rules), key=order): stable, equal keys keep their input order
RECURSIVE InsertByOrder(_, _)
InsertByOrder(sorted, rule) ==
    IF sorted = <<>> THEN <<rule>>
    ELSE IF rule.order < Head(sorted).order THEN <<rule>> \o sorted
    ELSE <<Head(sorted)>> \o InsertByOrder(Tail(sorted), rule)

RECURSIVE SortByOrder(_)
SortByOrder(rs) ==
    IF rs = <<>> THEN <<>>
    ELSE InsertByOrder(SortByOrder(SubSeq(rs, 1, Len(rs) - 1)), rs[Len(rs)])

\* Generator.__init__: self.rules
GeneratorInit(rs) == SortByOrder(rs)

\* Generator._signature
Signature(feats) ==
    LET keys == SortedKeys(feats)
    IN Join(<<"|">>, [i \in 1..Len(keys) |->
                        keys[i] \o <<"=">> \o PyStr(DictGet(feats, keys[i]))])

\* Mutant of EffectiveFeats: the operands swapped, the lexeme's defaults win
EffectiveFeatsDefaultsWin(features, target) ==
    [feats |-> DictMerge(target, features), features |-> features, target |-> target]

\* Mutant of EffectiveFeats: lexeme.features.update(target), the merge
\* written into the lexeme's own dict
EffectiveFeatsInPlace(features, target) ==
    [feats |-> DictMerge(features, target), features |-> DictMerge(features, target),
     target |-> target]

\* feats = {**lexeme.features, **target}: the new dict, and the two operands
\* as the expression leaves them
EffectiveFeats(features, target) ==
    [feats |-> DictMerge(features, target), features |-> features, target |-> target]

\* The result of generate, with what it did on the way: consulted lists the
\* positions in self.rules whose applies() was evaluated, steps the calls of
\* rule.apply with the surface passed in and the surface returned.
GenResult(raised, value, consulted, steps) ==
    [raised |-> raised, value |-> value, consulted |-> consulted, steps |-> steps]

\* Mutant of GenerateLoop: the loop ends at the first rule that does not
\* apply (break for continue)
RECURSIVE GenerateLoopStopsAtMismatch(_, _, _, _, _, _)
GenerateLoopStopsAtMismatch(rs, i, surface, feats, consulted, steps) ==
    IF i > Len(rs) THEN GenResult(FALSE, surface, consulted, steps)
    ELSE IF ~Applies(rs[i], feats)
         THEN GenResult(FALSE, surface, Append(consulted, i), steps)
    ELSE LET out == RuleApply(rs[i], surface, feats)
         IN IF out.raised
            THEN GenResult(TRUE, <<>>, Append(consulted, i), steps)
            ELSE GenerateLoopStopsAtMismatch(rs, i + 1, out.value, feats,
                     Append(consulted, i),
                     Append(steps, [rule |-> i, input |-> surface, output |-> out.value]))

\* The for loop of generate from position i on
RECURSIVE GenerateLoop(_, _, _, _, _, _)
GenerateLoop(rs, i, surface, feats, consulted, steps) ==
    IF i > Len(rs) THEN GenResult(FALSE, surface, consulted, steps)
    ELSE IF ~Applies(rs[i], feats)
         THEN GenerateLoop(rs, i + 1, surface, feats, Append(consulted, i), steps)
    ELSE LET out == RuleApply(rs[i], surface, feats)
         IN IF out.raised
            THEN GenResult(TRUE, <<>>, Append(consulted, i), steps)
            ELSE GenerateLoop(rs, i + 1, out.value, feats, Append(consulted, i),
                     Append(steps, [rule |-> i, input |-> surface, output |-> out.value]))

\* Mutant of Generate: the irregular table is a fallback, used only when no
\* rule fired
GenerateIrregularAsFallback(rs, lexeme, target) ==
    LET signature == Signature(target)
        eff == EffectiveFeats(lexeme.features, target)
        looped == GenerateLoop(rs, 1, lexeme.stem, eff.feats, <<>>, <<>>)
    IN IF looped.steps = <<>> /\ ~looped.raised /\ HasKey(lexeme.irregular, signature)
       THEN [res |-> GenResult(FALSE, DictGet(lexeme.irregular, signature), <<>>, <<>>),
             features |-> lexeme.features, target |-> target]
       ELSE [res |-> looped, features |-> eff.features, target |-> eff.target]

\* Generator.generate(lexeme, target) of a generator whose self.rules is rs.
\* features and target are the two dicts as the call leaves them.
Generate(rs, lexeme, target) ==
    LET signature == Signature(target)
    IN IF HasKey(lexeme.irregular, signature)
       THEN [res |-> GenResult(FALSE, DictGet(lexeme.irregular, signature), <<>>, <<>>),
             features |-> lexeme.features, target |-> target]
       ELSE LET eff == EffectiveFeats(lexeme.features, target)
            IN [res |-> GenerateLoop(rs, 1, lexeme.stem, eff.feats, <<>>, <<>>),
                features |-> eff.features, target |-> eff.target]

\* ------------------------------------------------------------------------
\* Feature names and values of the examples
\* ------------------------------------------------------------------------
cat == <<"c", "a", "t">>
num == <<"n", "u", "m">>
verb == StrV(<<"v", "e", "r", "b">>)
noun == StrV(<<"n", "o", "u", "n">>)
agent == StrV(<<"a", "g", "e", "n", "t">>)
sg == StrV(<<"s", "g">>)
pl == StrV(<<"p", "l">>)

\* ------------------------------------------------------------------------
\* prompt2features.py: the prompt parser
\* ------------------------------------------------------------------------
\* str.strip() for the whitespace of the model, the space
RECURSIVE LStrip(_)
LStrip(s) == IF s # <<>> /\ Head(s) = " " THEN LStrip(Tail(s)) ELSE s

RECURSIVE RStrip(_)
RStrip(s) ==
    IF s # <<>> /\ s[Len(s)] = " " THEN RStrip(SubSeq(s, 1, Len(s) - 1)) ELSE s

Strip(s) == RStrip(LStrip(s))

\* str.lower() for the characters of the model
UpperChars ==
    <<"A", "B", "C", "D", "E", "F", "G", "H", "I", "J", "K", "L", "M",
      "N", "O", "P", "Q", "R", "S", "T", "U", "V", "W", "X", "Y", "Z">>
LowerChars ==
    <<"a", "b", "c", "d", "e", "f", "g", "h", "i", "j", "k", "l", "m",
      "n", "o", "p", "q", "r", "s", "t", "u", "v", "w", "x", "y", "z">>

LowerChar(c) ==
    IF \E i \in 1..Len(UpperChars) : UpperChars[i] = c
    THEN LowerChars[CHOOSE i \in 1..Len(UpperChars) : UpperChars[i] = c]
    ELSE c

Lower(s) == [i \in 1..Len(s) |-> LowerChar(s[i])]

\* s.endswith(p)
EndsWith(s, p) == Len(p) <= Len(s) /\ SubSeq(s, Len(s) - Len(p) + 1, Len(s)) = p

\* What a function returning Optional[(lemma, feats)] returns
PyNone == [none |-> TRUE, lemma |-> <<>>, feats |-> <<>>]
Request(lemma, feats) == [none |-> FALSE, lemma |-> lemma, feats |-> feats]

\* _nltk_guess(text).  NLTK is not part of the repository: nlp says whether
\* the import succeeded and what word_tokenize, pos_tag and the lemmatizer
\* give for the text (a LookupError, no token, or the last token's lemma and
\* tag).
NltkGuess(text, nlp) ==
    IF nlp.kind = "absent" THEN PyNone
    ELSE IF nlp.kind = "no_tokens" THEN PyNone
    ELSE IF nlp.kind = "lookup_error" THEN PyNone
    ELSE IF StartsWith(nlp.tag, <<"V", "B">>) THEN Request(nlp.lemma, <<Item(cat, verb)>>)
    ELSE IF nlp.tag \in {<<"N", "N">>, <<"N", "N", "S">>} /\ EndsWith(nlp.lemma, <<"e", "r">>)
         THEN Request(SubSeq(nlp.lemma, 1, Len(nlp.lemma) - 2),
                      <<Item(cat, agent),
                        Item(num, IF nlp.tag = <<"N", "N", "S">> THEN pl ELSE sg)>>)
    ELSE PyNone

\* english_prompt_to_request(text): after the NLTK guess the function body
\* ends (the heuristics are commented out), so it returns None
EnglishPromptToRequest(text, nlp) ==
    LET s == Lower(Strip(text))
    IN IF s = <<>> THEN Request(<<>>, <<>>)
       ELSE LET nltk_guess == NltkGuess(s, nlp)
            IN IF ~nltk_guess.none THEN nltk_guess ELSE PyNone

\* ------------------------------------------------------------------------
\* morph_rule_adapter.py and morphology.py: lemma resolution, apply and run
\* ------------------------------------------------------------------------
Vowels == {"a", "e", "i", "o", "u"}

\* Mutant of LemmaVariants: the degeminated variant is tried first
LemmaVariantsDegeminatedFirst(lemma) ==
    (IF Len(lemma) > 1 /\ lemma[Len(lemma)] = lemma[Len(lemma) - 1]
     THEN <<SubSeq(lemma, 1, Len(lemma) - 1)>> ELSE <<>>)
    \o
    (IF lemma # <<>> /\ lemma[Len(lemma)] \notin {"a", "e", "i", "o", "u"}
     THEN <<lemma \o <<"e">>>> ELSE <<>>)

\* _lemma_variants(lemma): the generator's yields, in order
LemmaVariants(lemma) ==
    (IF lemma # <<>> /\ lemma[Len(lemma)] \notin Vowels
     THEN <<lemma \o <<"e">>>> ELSE <<>>)
    \o
    (IF Len(lemma) > 1 /\ lemma[Len(lemma)] = lemma[Len(lemma) - 1]
     THEN <<SubSeq(lemma, 1, Len(lemma) - 1)>> ELSE <<>>)

\* The seen-set loop of _lemma_candidates over a tuple of candidates
RECURSIVE Dedup(_, _)
Dedup(cands, seen) ==
    IF cands = <<>> THEN <<>>
    ELSE IF Head(cands) \in seen THEN Dedup(Tail(cands), seen)
    ELSE <<Head(cands)>> \o Dedup(Tail(cands), seen \cup {Head(cands)})

\* _lemma_candidates(lemma)
LemmaCandidates(lemma) == Dedup(<<lemma>> \o LemmaVariants(lemma), {})

\* The position of key k in the lexicon dict, 0 when absent
KeyIndex(lex, k) ==
    IF HasKey(lex, k) THEN CHOOSE i \in 1..Len(lex) : lex[i].k = k ELSE 0

\* RootedMorphRule._resolve_lexeme: the first candidate whose
\* self._lexicon.get(candidate) is not None; 0 stands for the returned None
RECURSIVE RootedResolveFrom(_, _)
RootedResolveFrom(lex, cands) ==
    IF cands = <<>> THEN 0
    ELSE IF KeyIndex(lex, Head(cands)) # 0 THEN KeyIndex(lex, Head(cands))
    ELSE RootedResolveFrom(lex, Tail(cands))

RootedResolveLexeme(lex, lemma) == RootedResolveFrom(lex, LemmaCandidates(lemma))

\* MorphologySolution._resolve_lexeme: the first candidate in self._lexicon
RECURSIVE SolutionResolveFrom(_, _)
SolutionResolveFrom(lex, cands) ==
    IF cands = <<>> THEN 0
    ELSE IF HasKey(lex, Head(cands)) THEN KeyIndex(lex, Head(cands))
    ELSE SolutionResolveFrom(lex, Tail(cands))

SolutionResolveLexeme(lex, lemma) == SolutionResolveFrom(lex, LemmaCandidates(lemma))

\* The outcome of apply or run: what is returned or raised, the parser's
\* answer, the lexeme resolved (0 for none) and its features after the call
Outcome(raised, value, request, resolved, features) ==
    [raised |-> raised, value |-> value, request |-> request,
     resolved |-> resolved, features |-> features]

\* RootedMorphRule.apply(data): unpacking the parser's None raises TypeError
RootedApply(rs, lex, data, nlp) ==
    LET request == EnglishPromptToRequest(data, nlp)
    IN IF request.none THEN Outcome(TRUE, <<>>, request, 0, <<>>)
       ELSE IF request.lemma = <<>> THEN Outcome(FALSE, data, request, 0, <<>>)
       ELSE LET l == RootedResolveLexeme(lex, request.lemma)
            IN IF l = 0 THEN Outcome(FALSE, data, request, 0, <<>>)
               ELSE LET g == Generate(rs, lex[l].v, request.feats)
                    IN Outcome(g.res.raised, g.res.value, request, l, g.features)

\* The lexicon after an apply with that outcome: the resolved lexeme with
\* its features as generate left them
LexiconAfter(lex, out) ==
    [i \in 1..Len(lex) |->
        IF i = out.resolved
        THEN Item(lex[i].k, [lex[i].v EXCEPT !.features = out.features])
        ELSE lex[i]]

\* What NLTK answers during one run: first for the prompt the run was given,
\* rest for any other text a rule is handed
Oracle(prompt, first, rest) == [prompt |-> prompt, first |-> first, rest |-> rest]
NltkAnswer(oracle, text) == IF text = oracle.prompt THEN oracle.first ELSE oracle.rest

\* The classes of the rules a solution holds: the base class Rule, whose
\* apply returns the data, and RootedMorphRule on the generator and lexicon
SolutionRuleClasses == { "Rule", "RootedMorphRule" }

\* rule.apply(result) for a rule of Solution._rules
SolutionRuleApply(class_name, rs, lex, data, nlp) ==
    IF class_name = "Rule" THEN Outcome(FALSE, data, Request(<<>>, <<>>), 0, <<>>)
    ELSE RootedApply(rs, lex, data, nlp)

\* The result of a run: raised or the value returned, and the lexicon as the
\* run leaves it
RunResult(raised, value, lex) == [raised |-> raised, value |-> value, lex |-> lex]

\* The for loop of Solution.run from rule i on
RECURSIVE SolutionRunFrom(_, _, _, _, _, _)
SolutionRunFrom(srules, i, rs, lex, result, oracle) ==
    IF i > Len(srules) THEN RunResult(FALSE, result, lex)
    ELSE LET out == SolutionRuleApply(srules[i], rs, lex, result, NltkAnswer(oracle, result))
         IN IF out.raised THEN RunResult(TRUE, <<>>, LexiconAfter(lex, out))
            ELSE SolutionRunFrom(srules, i + 1, rs, LexiconAfter(lex, out), out.value, oracle)

\* Solution.run(data) of a solution whose self._rules is srules
SolutionRun(srules, rs, lex, data, oracle) ==
    SolutionRunFrom(srules, 1, rs, lex, data, oracle)

\* The outcome of MorphologySolution.run: as RunResult, with the parser's
\* answer for the prompt and the lexeme resolved for it (0 for none)
RunOutcome(run, request, resolved) ==
    [raised |-> run.raised, value |-> run.value, lex |-> run.lex,
     request |-> request, resolved |-> resolved]

\* MorphologySolution.run(data): the prompt is realised, then handed to
\* Solution.run
MorphologyRun(srules, rs, lex, data, oracle) ==
    LET request == EnglishPromptToRequest(data, NltkAnswer(oracle, data))
    IN IF request.none THEN RunOutcome(RunResult(TRUE, <<>>, lex), request, 0)
       ELSE IF request.lemma = <<>>
            THEN RunOutcome(SolutionRun(srules, rs, lex, data, oracle), request, 0)
       ELSE LET l == SolutionResolveLexeme(lex, request.lemma)
            IN IF l = 0
               THEN RunOutcome(SolutionRun(srules, rs, lex, data, oracle), request, 0)
               ELSE LET g == Generate(rs, lex[l].v, request.feats)
                        after == LexiconAfter(lex, [resolved |-> l, features |-> g.features])
                    IN IF g.res.raised
                       THEN RunOutcome(RunResult(TRUE, <<>>, after), request, l)
                       ELSE RunOutcome(SolutionRun(srules, rs, after, g.res.value, oracle),
                                       request, l)

\* ------------------------------------------------------------------------
\* morphology.py: paradigm inference
\* ------------------------------------------------------------------------
\* json.dumps of a feature value: a quoted str (the model's strs need no
\* escape), or null
JsonValue(v) == IF v.tag = "none" THEN <<"n", "u", "l", "l">> ELSE <<"\"">> \o v.s \o <<"\"">>

\* The items of json.dumps(d), in the order of keys
JsonItems(d, keys) ==
    [i \in 1..Len(keys) |->
        <<"\"">> \o keys[i] \o <<"\"", ":", " ">> \o JsonValue(DictGet(d, keys[i]))]

\* Mutant of JsonDumps: sort_keys left out, the items in insertion order
JsonDumpsUnsorted(d) ==
    <<"{">> \o Join(<<",", " ">>, JsonItems(d, [i \in 1..Len(d) |-> d[i].k])) \o <<"}">>

\* json.dumps(d, sort_keys=True) of a feature bundle
JsonDumps(d) ==
    <<"{">> \o Join(<<",", " ">>, JsonItems(d, SortedKeys(d))) \o <<"}">>

\* The abbrev table of _create_label, but for its "class" entry
class == <<"c", "l", "a", "s", "s">>
Abbrev ==
    { [k |-> num, v |-> <<"s", "g">>, code |-> <<"S", "G">>],
      [k |-> num, v |-> <<"p", "l">>, code |-> <<"P", "L">>],
      [k |-> <<"t", "e", "n", "s", "e">>, v |-> <<"p", "a", "s", "t">>, code |-> <<"P", "S", "T">>],
      [k |-> <<"t", "e", "n", "s", "e">>, v |-> <<"p", "r", "e", "s">>, code |-> <<"P", "R", "S">>],
      [k |-> <<"t", "e", "n", "s", "e">>, v |-> <<"f", "u", "t">>, code |-> <<"F", "U", "T">>],
      [k |-> <<"p", "e", "r", "s", "o", "n">>, v |-> <<"1">>, code |-> <<"1">>],
      [k |-> <<"p", "e", "r", "s", "o", "n">>, v |-> <<"2">>, code |-> <<"2">>],
      [k |-> <<"p", "e", "r", "s", "o", "n">>, v |-> <<"3">>, code |-> <<"3">>],
      [k |-> cat, v |-> <<"v", "e", "r", "b">>, code |-> <<"V">>],
      [k |-> cat, v |-> <<"n", "o", "u", "n">>, code |-> <<"N">>],
      [k |-> cat, v |-> <<"a", "d", "j">>, code |-> <<"A", "D", "J">>],
      [k |-> cat, v |-> <<"a", "g", "e", "n", "t">>, code |-> <<"A", "G", "T">>],
      [k |-> <<"p", "o", "l", "a", "r", "i", "t", "y">>, v |-> <<"n", "e", "g">>,
       code |-> <<"N", "E", "G">>],
      [k |-> <<"p", "o", "l", "a", "r", "i", "t", "y">>, v |-> <<"p", "o", "s">>,
       code |-> <<"P", "O", "S">>] }

\* One part of a label: the token of _create_label for a key and its value
LabelPart(key, value) ==
    IF key = class THEN <<"C", "L">> \o PyStr(value)
    ELSE IF \E t \in Abbrev : t.k = key /\ StrV(t.v) = value
         THEN (CHOOSE t \in Abbrev : t.k = key /\ StrV(t.v) = value).code
    ELSE key \o <<"=">> \o PyStr(value)

base == <<"b", "a", "s", "e">>

\* Mutant of CreateLabel: the keys are taken in the dict's own order
CreateLabelInsertionOrder(features) ==
    IF features = <<>> THEN base
    ELSE Join(<<".">>, [i \in 1..Len(features) |-> LabelPart(features[i].k, features[i].v)])

\* MorphologySolution._create_label
CreateLabel(features) ==
    IF features = <<>> THEN base
    ELSE LET keys == SortedKeys(features)
         IN Join(<<".">>, [i \in 1..Len(keys) |-> LabelPart(keys[i], DictGet(features, keys[i]))])

\* A paradigm entry (label, features)
Column(label, features) == [label |-> label, features |-> features]

\* The for loop of infer_paradigm over the sorted rules from position i on
RECURSIVE InferLoop(_, _, _, _)
InferLoop(sorted, i, paradigm, seen_bundles) ==
    IF i > Len(sorted) THEN paradigm
    ELSE LET bundle_key == JsonDumps(sorted[i].when)
         IN IF bundle_key \notin seen_bundles
            THEN InferLoop(sorted, i + 1,
                           Append(paradigm, Column(CreateLabel(sorted[i].when), sorted[i].when)),
                           seen_bundles \cup {bundle_key})
            ELSE InferLoop(sorted, i + 1, paradigm, seen_bundles)

\* Mutant of InferParadigm: the base entry is not put first
InferParadigmNoBase(rs) ==
    IF rs = <<>> THEN <<>>
    ELSE InferLoop(SortByOrder(rs), 1, <<>>, {})

\* MorphologySolution.infer_paradigm() of a solution whose generator has rs
InferParadigm(rs) ==
    IF rs = <<>> THEN <<>>
    ELSE InferLoop(SortByOrder(rs), 1, <<Column(base, <<>>)>>, {JsonDumps(<<>>)})

\* ------------------------------------------------------------------------
\* morphology.py and utils.py: the paradigm table
\* ------------------------------------------------------------------------
\* lexeme_subset: None, or a list of lemma names
NoSubset == [none |-> TRUE, names |-> <<>>]
Subset(names) == [none |-> FALSE, names |-> names]

\* x in a list
InList(xs, x) == \E i \in 1..Len(xs) : xs[i] = x

\* Mutant of LexemesToShow: the subset list is walked instead of the lexicon,
\* so the rows follow the subset's order and repeat with it
LexemesInSubsetOrder(lex, lexeme_subset, i) ==
    IF lexeme_subset.none THEN [j \in 1..Len(lex) |-> j]
    ELSE LET present == SelectSeq(lexeme_subset.names,
                                  LAMBDA n : \E j \in 1..Len(lex) : lex[j].k = n)
         IN [q \in 1..Len(present) |->
                CHOOSE j \in 1..Len(lex) : lex[j].k = present[q]]

\* The positions in the lexicon of lexemes_to_show, in lexicon order
RECURSIVE LexemesToShow(_, _, _)
LexemesToShow(lex, lexeme_subset, i) ==
    IF i > Len(lex) THEN <<>>
    ELSE IF lexeme_subset.none \/ InList(lexeme_subset.names, lex[i].k)
         THEN <<i>> \o LexemesToShow(lex, lexeme_subset, i + 1)
    ELSE LexemesToShow(lex, lexeme_subset, i + 1)

\* Mutant of Cell: the error of generate is not caught
CellNoCatch(rs, lexeme, features) ==
    LET g == Generate(rs, lexeme, features)
    IN [raised |-> g.res.raised, value |-> g.res.value, features |-> g.features]

\* One cell of get_table: generate in its try block, the em dash on any
\* Exception
Cell(rs, lexeme, features) ==
    LET g == Generate(rs, lexeme, features)
    IN [raised |-> FALSE,
        value |-> IF g.res.raised THEN <<EmDash>> ELSE g.res.value,
        features |-> g.features]

\* The loops of get_table: one row per shown lexeme, the lemma key and then
\* one cell per feature combination
BuildRows(rs, lex, shown, feature_combinations) ==
    [r \in 1..Len(shown) |->
        <<lex[shown[r]].k>>
        \o [j \in 1..Len(feature_combinations) |->
              Cell(rs, lex[shown[r]].v, feature_combinations[j].features).value]]

\* An exception left a cell: nothing else catches it, it leaves the loops
\* and get_table
RowsRaised(rs, lex, shown, feature_combinations) ==
    \E r \in 1..Len(shown), j \in 1..Len(feature_combinations) :
        Cell(rs, lex[shown[r]].v, feature_combinations[j].features).raised

\* The lexicon after the loops: each shown lexeme with its features as the
\* generate calls left them
LexiconAfterRows(rs, lex, shown, feature_combinations) ==
    [i \in 1..Len(lex) |->
        IF InList(shown, i) /\ feature_combinations # <<>>
        THEN Item(lex[i].k,
                  [lex[i].v EXCEPT !.features =
                      Cell(rs, lex[i].v,
                           feature_combinations[Len(feature_combinations)].features).features])
        ELSE lex[i]]

\* What get_table returns: the text of the pretty format, or for the json
\* format the object whose json.dumps text is returned
PrettyOut(text) ==
    [format |-> "pretty", text |-> text, columns |-> <<>>, rows |-> <<>>, total_rows |-> 0]
JsonOut(columns, rows, total_rows) ==
    [format |-> "json", text |-> <<>>, columns |-> columns, rows |-> rows,
     total_rows |-> total_rows]

\* _format_as_json
FormatAsJson(headers, rows) ==
    JsonOut([i \in 1..Len(headers) |->
                [name |-> StrReplace(Lower(headers[i]), <<" ">>, <<"_">>),
                 type |-> <<"s", "t", "r", "i", "n", "g">>]],
            rows, Len(rows))

\* The box-drawing characters, each one character
BoxH == "U+2500"
BoxV == "U+2502"
BoxDR == "U+250C"
BoxDL == "U+2510"
BoxUR == "U+2514"
BoxUL == "U+2518"
BoxVR == "U+251C"
BoxVL == "U+2524"
BoxDH == "U+252C"
BoxUH == "U+2534"
BoxVH == "U+253C"

Max(a, b) == IF a >= b THEN a ELSE b

\* c * n
Repeat(c, n) == [i \in 1..n |-> c]

\* f"{s:<{w}}": left-aligned, padded with spaces to width w
PadLeft(s, w) == s \o Repeat(" ", Max(w - Len(s), 0))

\* Mutant of ColWidth: the width of a column is the length of its header,
\* the cells are not measured
ColWidthOfHeader(width, rows, r, i) == width

\* The col_widths loops of _format_as_pretty_table
RECURSIVE ColWidth(_, _, _, _)
ColWidth(width, rows, r, i) ==
    IF r > Len(rows) THEN width
    ELSE ColWidth(Max(width, Len(rows[r][i])), rows, r + 1, i)

ColWidths(headers, rows) == [i \in 1..Len(headers) |-> ColWidth(Len(headers[i]), rows, 1, i)]

\* A border line: left + mid.join("─" * (w + 2)) + right
BorderLine(left, mid, right, col_widths) ==
    <<left>> \o Join(<<mid>>, [i \in 1..Len(col_widths) |-> Repeat(BoxH, col_widths[i] + 2)])
            \o <<right>>

\* A line of cells: "│" + "│".join(f" {cell:<{w}} ") + "│"
CellLine(cells, col_widths) ==
    <<BoxV>> \o Join(<<BoxV>>, [i \in 1..Len(cells) |->
                                  <<" ">> \o PadLeft(cells[i], col_widths[i]) \o <<" ">>])
             \o <<BoxV>>

\* _format_as_pretty_table
FormatAsPrettyTable(headers, rows) ==
    LET col_widths == ColWidths(headers, rows)
        lines == <<BorderLine(BoxDR, BoxDH, BoxDL, col_widths), CellLine(headers, col_widths),
                   BorderLine(BoxVR, BoxVH, BoxVL, col_widths)>>
                 \o [r \in 1..Len(rows) |-> CellLine(rows[r], col_widths)]
                 \o <<BorderLine(BoxUR, BoxUH, BoxUL, col_widths)>>
    IN PrettyOut(Join(<<"\n">>, lines))

Lemma == <<"L", "e", "m", "m", "a">>

\* The result of a table call: raised or the output, with the headers and
\* rows it was made from and the lexicon as the call leaves it
TableResult(raised, out, headers, rows, lex) ==
    [raised |-> raised, out |-> out, headers |-> headers, rows |-> rows, lex |-> lex]

\* Mutant of GetTable: no early return for an empty selection or an empty
\* combination list, the table is always built
GetTableNoEmptyGuard(rs, lex, feature_combinations, lexeme_subset, format) ==
    LET lexemes_to_show == LexemesToShow(lex, lexeme_subset, 1)
        headers == <<Lemma>> \o [j \in 1..Len(feature_combinations) |->
                                    feature_combinations[j].label]
        rows == BuildRows(rs, lex, lexemes_to_show, feature_combinations)
        after == LexiconAfterRows(rs, lex, lexemes_to_show, feature_combinations)
    IN IF RowsRaised(rs, lex, lexemes_to_show, feature_combinations)
       THEN TableResult(TRUE, PrettyOut(<<>>), headers, <<>>, after)
       ELSE IF format = "json"
            THEN TableResult(FALSE, FormatAsJson(headers, rows), headers, rows, after)
       ELSE TableResult(FALSE, FormatAsPrettyTable(headers, rows), headers, rows, after)

\* MorphologySolution.get_table(feature_combinations, lexeme_subset, format)
GetTable(rs, lex, feature_combinations, lexeme_subset, format) ==
    LET lexemes_to_show == LexemesToShow(lex, lexeme_subset, 1)
    IN IF lexemes_to_show = <<>> \/ feature_combinations = <<>>
       THEN TableResult(FALSE,
                        IF format = "pretty" THEN PrettyOut(<<>>) ELSE JsonOut(<<>>, <<>>, 0),
                        <<>>, <<>>, lex)
       ELSE LET headers == <<Lemma>> \o [j \in 1..Len(feature_combinations) |->
                                            feature_combinations[j].label]
                rows == BuildRows(rs, lex, lexemes_to_show, feature_combinations)
                after == LexiconAfterRows(rs, lex, lexemes_to_show, feature_combinations)
            IN IF RowsRaised(rs, lex, lexemes_to_show, feature_combinations)
               THEN TableResult(TRUE, PrettyOut(<<>>), headers, <<>>, after)
               ELSE IF format = "json"
                    THEN TableResult(FALSE, FormatAsJson(headers, rows), headers, rows, after)
               ELSE TableResult(FALSE, FormatAsPrettyTable(headers, rows), headers, rows, after)

\* ParadigmTableFormatter.format_table: the same body in utils.py
FormatTable(rs, lex, feature_combinations, lexeme_subset, format) ==
    LET lexemes_to_show == LexemesToShow(lex, lexeme_subset, 1)
    IN IF lexemes_to_show = <<>> \/ feature_combinations = <<>>
       THEN TableResult(FALSE,
                        IF format = "pretty" THEN PrettyOut(<<>>) ELSE JsonOut(<<>>, <<>>, 0),
                        <<>>, <<>>, lex)
       ELSE LET headers == <<Lemma>> \o [j \in 1..Len(feature_combinations) |->
                                            feature_combinations[j].label]
                rows == BuildRows(rs, lex, lexemes_to_show, feature_combinations)
                after == LexiconAfterRows(rs, lex, lexemes_to_show, feature_combinations)
            IN IF RowsRaised(rs, lex, lexemes_to_show, feature_combinations)
               THEN TableResult(TRUE, PrettyOut(<<>>), headers, <<>>, after)
               ELSE IF format = "json"
                    THEN TableResult(FALSE, FormatAsJson(headers, rows), headers, rows, after)
               ELSE TableResult(FALSE, FormatAsPrettyTable(headers, rows), headers, rows, after)

\* MorphologySolution.get_auto_table(lexeme_subset, format)
GetAutoTable(rs, lex, lexeme_subset, format) ==
    GetTable(rs, lex, InferParadigm(rs), lexeme_subset, format)

\* ------------------------------------------------------------------------
\* The rules, lexicons and requests the model draws from
\* ------------------------------------------------------------------------
agent_sg ==
    MkRule("circumfix", "agent-sg", <<Item(cat, agent), Item(num, sg)>>, 10,
           <<"u", "m">>, <<"i">>)
agent_pl ==
    MkRule("circumfix", "agent-pl", <<Item(cat, agent), Item(num, pl)>>, 10,
           <<"a", "b", "a">>, <<"i">>)
verb_bare == MkRule("suffix", "verb-bare", <<Item(cat, verb)>>, 20, <<"a">>, <<>>)
sg_agent ==
    MkRule("prefix", "sg-agent", <<Item(num, sg), Item(cat, agent)>>, 20, <<"n">>, <<>>)
always == MkRule("template", "always", <<>>, 20, STEM \o <<"o">>, <<>>)
bad_pattern == MkRule("rewrite", "bad-pattern", <<Item(cat, verb)>>, 30, <<"(">>, <<>>)
l_to_r == MkRule("rewrite", "l-to-r", <<Item(num, NoneV)>>, 30, <<"l">>, <<"r">>)

RulePool == { agent_sg, agent_pl, verb_bare, sg_agent, always, bad_pattern, l_to_r }

\* The three rules of the worked examples, as the tests declare them
ExampleRules == <<agent_sg, agent_pl, verb_bare>>

\* Lexeme(lemma, stem, features, irregular)
Lexeme(lemma, stem, features, irregular) ==
    [lemma |-> lemma, stem |-> stem, features |-> features, irregular |-> irregular]

paint == Lexeme(<<"p", "a", "i", "n", "t">>, <<"d", "w", "e", "b">>, <<>>, <<>>)
hunt == Lexeme(<<"h", "u", "n", "t">>, <<"z", "i", "n", "g", "e", "l">>,
               <<Item(cat, agent)>>,
               <<Item(cat \o <<"=">> \o agent.s \o <<"|">> \o num \o <<"=">> \o pl.s,
                      <<"a", "b", "a", "z", "i">>),
                 Item(cat \o <<"=">> \o verb.s, <<"z", "i", "n", "g", "a">>)>>)
carve == Lexeme(<<"c", "a", "r", "v", "e">>, <<"b", "a", "z">>,
                <<Item(cat, agent), Item(num, sg)>>,
                <<Item(cat \o <<"=">> \o noun.s, <<"b", "a", "z", "o">>)>>)
kil == Lexeme(<<"k", "i", "l">>, <<"b", "u", "l">>, <<>>, <<>>)
kill == Lexeme(<<"k", "i", "l", "l">>, <<"b", "u", "l", "a", "l">>, <<>>, <<>>)
kille == Lexeme(<<"k", "i", "l", "l", "e">>, <<"b", "u", "l", "a", "l", "e">>, <<>>, <<>>)

\* A lexicon is a dict lemma -> Lexeme: its items in insertion order
Entry(lexeme) == Item(lexeme.lemma, lexeme)

\* The lexicon of the worked examples, with default features and irregulars
MorphLexicon == <<Entry(paint), Entry(hunt), Entry(carve)>>

LexiconPool ==
    { <<>>,
      MorphLexicon,
      <<Entry(kil), Entry(kille)>>,
      <<Entry(kil), Entry(kill), Entry(kille)>> }

TargetPool ==
    { <<>>,
      <<Item(cat, verb)>>,
      <<Item(cat, noun)>>,
      <<Item(num, pl)>>,
      <<Item(cat, agent), Item(num, sg)>>,
      <<Item(cat, agent), Item(num, pl)>>,
      <<Item(num, pl), Item(cat, agent)>> }

\* The lists of at most n distinct rules of the pool
RuleLists(n) ==
    UNION { { rs \in [1..k -> RulePool] : \A i, j \in 1..k : i # j => rs[i] # rs[j] }
            : k \in 0..n }

\* ------------------------------------------------------------------------
\* State
\* ------------------------------------------------------------------------
VARIABLES
    rules,            \* the rule list given to the constructor
    generator_rules,  \* Generator.rules
    lexicon,          \* MorphologySolution._lexicon / RootedMorphRule._lexicon
    call,             \* the last call made: its name, arguments and result
    history,          \* the first generate call made and the kinds of call since
    solution_rules    \* Solution._rules: the class of each rule added with add_rule

vars == <<rules, generator_rules, lexicon, call, history, solution_rules>>

\* No generate call was made yet
NoHistory == [set |-> FALSE]

\* MorphologySolution.__init__(rules, lexicon)
Init ==
    /\ rules \in RuleLists(MaxRules)
    /\ generator_rules = GeneratorInit(rules)
    /\ lexicon = MorphLexicon
    /\ call = [op |-> "init"]
    /\ history = NoHistory
    /\ solution_rules = <<>>

\* The lexicon after a call that left lexeme number l with the given features
LexiconWith(l, features) ==
    [i \in 1..Len(lexicon) |->
        IF i = l THEN Item(lexicon[i].k, [lexicon[i].v EXCEPT !.features = features])
        ELSE lexicon[i]]

\* generator.generate(lexicon[l], target)
DoGenerate(l, target) ==
    LET g == Generate(generator_rules, lexicon[l].v, target)
    IN /\ call' = [op |-> "generate", lexeme |-> lexicon[l].v, target |-> target,
                   target_after |-> g.target, result |-> g.res]
       /\ lexicon' = LexiconWith(l, g.features)
       /\ UNCHANGED <<rules, generator_rules>>

Next ==
    \/ \E l \in 1..Len(lexicon), target \in TargetPool :
          DoGenerate(l, target) /\ UNCHANGED <<history, solution_rules>>

Spec == Init /\ [][Next]_vars

\* ------------------------------------------------------------------------
\* Lemma resolution and prompt handling: a second specification over the
\* lexicons of the pool
\* ------------------------------------------------------------------------
LemmaPool ==
    { <<>>,
      <<"k", "i", "l">>,
      <<"k", "i", "l", "l">>,
      <<"k", "i", "l", "l", "e">>,
      <<"c", "a", "r", "v">>,
      <<"h", "u", "n", "t">>,
      <<"w", "a", "l", "k">> }

DataPool ==
    { <<>>,
      <<" ", " ">>,
      <<"t", "o", " ", "p", "a", "i", "n", "t">>,
      <<"k", "i", "l", "l", "e", "r", "s">> }

Tagged(lemma, tag) == [kind |-> "tagged", lemma |-> lemma, tag |-> tag]
Untagged(kind) == [kind |-> kind, lemma |-> <<>>, tag |-> <<>>]

\* What NLTK can answer for a prompt
NlpPool ==
    { Untagged("absent"), Untagged("lookup_error"), Untagged("no_tokens"),
      Tagged(<<"p", "a", "i", "n", "t">>, <<"V", "B">>),
      Tagged(<<"w", "a", "l", "k">>, <<"V", "B", "D">>),
      Tagged(<<"p", "a", "i", "n", "t">>, <<"J", "J">>),
      Tagged(<<"c", "a", "r", "v", "e", "r">>, <<"N", "N">>),
      Tagged(<<"k", "i", "l", "l", "e", "r">>, <<"N", "N", "S">>),
      Tagged(<<"e", "r">>, <<"N", "N">>) }

InitResolve ==
    /\ rules \in {<<>>, ExampleRules}
    /\ generator_rules = GeneratorInit(rules)
    /\ lexicon \in LexiconPool
    /\ call = [op |-> "init"]
    /\ history = NoHistory
    /\ solution_rules = <<>>

\* RootedMorphRule(description, generator, lexicon)._resolve_lexeme(lemma)
DoRootedResolve(lemma) ==
    /\ call' = [op |-> "resolve", cls |-> "RootedMorphRule", lemma |-> lemma,
                found |-> RootedResolveLexeme(lexicon, lemma)]
    /\ UNCHANGED <<rules, generator_rules, lexicon>>

\* MorphologySolution._resolve_lexeme(lemma)
DoSolutionResolve(lemma) ==
    /\ call' = [op |-> "resolve", cls |-> "MorphologySolution", lemma |-> lemma,
                found |-> SolutionResolveLexeme(lexicon, lemma)]
    /\ UNCHANGED <<rules, generator_rules, lexicon>>

\* RootedMorphRule.apply(data)
DoApply(data, nlp) ==
    LET out == RootedApply(generator_rules, lexicon, data, nlp)
    IN /\ call' = [op |-> "apply", data |-> data, nlp |-> nlp, result |-> out]
       /\ lexicon' = IF out.resolved = 0 THEN lexicon
                     ELSE LexiconWith(out.resolved, out.features)
       /\ UNCHANGED <<rules, generator_rules>>

\* MorphologySolution.run(data)
DoRun(data, nlp, rest) ==
    LET out == MorphologyRun(solution_rules, generator_rules, lexicon, data,
                             Oracle(data, nlp, rest))
    IN /\ call' = [op |-> "run", data |-> data, nlp |-> nlp, rest |-> rest, result |-> out]
       /\ lexicon' = out.lex
       /\ UNCHANGED <<rules, generator_rules>>

\* Solution.add_rule(rule) with a rule of the given class
DoAddRule(class_name) ==
    /\ Len(solution_rules) < MaxSolutionRules
    /\ solution_rules' = Append(solution_rules, class_name)
    /\ call' = [op |-> "add_rule", rule |-> class_name]
    /\ UNCHANGED <<rules, generator_rules, lexicon>>

\* Solution.run(data), the method of the base class
DoSolutionRun(data, nlp, rest) ==
    LET out == SolutionRun(solution_rules, generator_rules, lexicon, data,
                           Oracle(data, nlp, rest))
    IN /\ call' = [op |-> "solution_run", data |-> data, nlp |-> nlp, rest |-> rest,
                   result |-> out]
       /\ lexicon' = out.lex
       /\ UNCHANGED <<rules, generator_rules>>

\* What NLTK can answer for a text a rule produced, given its answer for the
\* prompt: without NLTK nothing, with it no guess or the verb "paint"
RestPool(nlp) ==
    IF nlp.kind = "absent" THEN { nlp }
    ELSE { Untagged("no_tokens"), Tagged(<<"p", "a", "i", "n", "t">>, <<"V", "B">>) }

NextResolve ==
    \/ \E lemma \in LemmaPool :
          DoRootedResolve(lemma) /\ UNCHANGED <<history, solution_rules>>
    \/ \E lemma \in LemmaPool :
          DoSolutionResolve(lemma) /\ UNCHANGED <<history, solution_rules>>
    \/ \E data \in DataPool, nlp \in NlpPool :
          DoApply(data, nlp) /\ UNCHANGED <<history, solution_rules>>
    \/ \E data \in DataPool, nlp \in NlpPool :
          DoRun(data, nlp, nlp) /\ UNCHANGED <<history, solution_rules>>

SpecResolve == InitResolve /\ [][NextResolve]_vars

\* ------------------------------------------------------------------------
\* Paradigm inference: a third specification over the rule lists
\* ------------------------------------------------------------------------
\* MorphologySolution.infer_paradigm()
DoInferParadigm ==
    /\ call' = [op |-> "infer_paradigm", result |-> InferParadigm(generator_rules)]
    /\ UNCHANGED <<rules, generator_rules, lexicon>>

NextParadigm == DoInferParadigm /\ UNCHANGED <<history, solution_rules>>

SpecParadigm == Init /\ [][NextParadigm]_vars

\* ------------------------------------------------------------------------
\* Paradigm tables: a fourth specification
\* ------------------------------------------------------------------------
\* The paradigm of the tests (get_paradigm)
TestParadigm ==
    << Column(<<"i", "n", "f", "i", "n", "i", "t", "i", "v", "e">>, <<Item(cat, verb)>>),
       Column(<<"a", "g", "e", "n", "t", ".", "s", "g">>, <<Item(cat, agent), Item(num, sg)>>),
       Column(<<"a", "g", "e", "n", "t", ".", "p", "l">>, <<Item(cat, agent), Item(num, pl)>>) >>

CombinationPool == { <<>>, TestParadigm }

SubsetPool ==
    { NoSubset,
      Subset(<<>>),
      Subset(<<paint.lemma>>),
      Subset(<<hunt.lemma, paint.lemma>>),
      Subset(<<paint.lemma, paint.lemma>>),
      Subset(<<<<"w", "a", "l", "k">>>>) }

TableRuleLists ==
    { <<>>,
      ExampleRules,
      <<bad_pattern, verb_bare, agent_sg>>,
      <<l_to_r, sg_agent, always>> }

InitTable ==
    /\ rules \in TableRuleLists
    /\ generator_rules = GeneratorInit(rules)
    /\ lexicon \in {<<>>, MorphLexicon, <<Entry(kil), Entry(kille)>>}
    /\ call = [op |-> "init"]
    /\ history = NoHistory
    /\ solution_rules = <<>>

\* The record of a table call
TableCall(op, feature_combinations, lexeme_subset, format, result) ==
    [op |-> op, feature_combinations |-> feature_combinations,
     lexeme_subset |-> lexeme_subset, format |-> format, result |-> result]

\* MorphologySolution.get_table(feature_combinations, lexeme_subset, format)
DoGetTable(feature_combinations, lexeme_subset, format) ==
    LET t == GetTable(generator_rules, lexicon, feature_combinations, lexeme_subset, format)
    IN /\ call' = TableCall("get_table", feature_combinations, lexeme_subset, format, t)
       /\ lexicon' = t.lex
       /\ UNCHANGED <<rules, generator_rules>>

\* ParadigmTableFormatter(generator, lexicon).format_table(...)
DoFormatTable(feature_combinations, lexeme_subset, format) ==
    LET t == FormatTable(generator_rules, lexicon, feature_combinations, lexeme_subset, format)
    IN /\ call' = TableCall("format_table", feature_combinations, lexeme_subset, format, t)
       /\ lexicon' = t.lex
       /\ UNCHANGED <<rules, generator_rules>>

\* MorphologySolution.get_auto_table(lexeme_subset, format)
DoGetAutoTable(lexeme_subset, format) ==
    LET t == GetAutoTable(generator_rules, lexicon, lexeme_subset, format)
    IN /\ call' = TableCall("get_auto_table", InferParadigm(generator_rules), lexeme_subset,
                            format, t)
       /\ lexicon' = t.lex
       /\ UNCHANGED <<rules, generator_rules>>

Formats == {"pretty", "json"}

NextTable ==
    \/ \E fc \in CombinationPool, ls \in SubsetPool, f \in Formats :
          DoGetTable(fc, ls, f) /\ UNCHANGED <<history, solution_rules>>
    \/ \E fc \in CombinationPool, ls \in SubsetPool, f \in Formats :
          DoFormatTable(fc, ls, f) /\ UNCHANGED <<history, solution_rules>>
    \/ \E ls \in SubsetPool, f \in Formats :
          DoGetAutoTable(ls, f) /\ UNCHANGED <<history, solution_rules>>

SpecTable == InitTable /\ [][NextTable]_vars

\* ------------------------------------------------------------------------
\* The rules called one at a time, and the worked example: a sixth
\* specification
\* ------------------------------------------------------------------------
\* A rewrite rule left with the default pattern ""
no_pattern == MkRule("rewrite", "no-pattern", <<>>, 30, <<>>, <<"x">>)

ApplyRulePool == RulePool \cup { no_pattern }

SurfacePool == { <<>>, paint.stem, hunt.stem }

\* The lexicon of test_generalized_morphology: stems only
TestLexicon ==
    << Entry(paint),
       Entry(Lexeme(hunt.lemma, hunt.stem, <<>>, <<>>)),
       Entry(kill),
       Entry(Lexeme(carve.lemma, carve.stem, <<>>, <<>>)) >>

InitApply ==
    /\ rules = ExampleRules
    /\ generator_rules = GeneratorInit(rules)
    /\ lexicon = TestLexicon
    /\ call = [op |-> "init"]
    /\ history = NoHistory
    /\ solution_rules = <<>>

\* rule.apply(surface, feats) of one rule on its own
DoRuleApply(rule, surface, feats) ==
    /\ call' = [op |-> "rule_apply", rule |-> rule, surface |-> surface, feats |-> feats,
                result |-> RuleApply(rule, surface, feats)]
    /\ UNCHANGED <<rules, generator_rules, lexicon>>

NextApply ==
    \/ \E rule \in ApplyRulePool, surface \in SurfacePool, feats \in TargetPool :
          DoRuleApply(rule, surface, feats) /\ UNCHANGED <<history, solution_rules>>
    \/ \E l \in 1..Len(lexicon), target \in TargetPool :
          DoGenerate(l, target) /\ UNCHANGED <<history, solution_rules>>

SpecApply == InitApply /\ [][NextApply]_vars

\* ------------------------------------------------------------------------
\* A solution with added rules, as test_generalized_morphology builds it:
\* add_rule, Solution.run, MorphologySolution.run and apply, a
\* specification of its own
\* ------------------------------------------------------------------------
NextSolution ==
    \/ \E class_name \in SolutionRuleClasses : DoAddRule(class_name) /\ UNCHANGED history
    \/ \E data \in DataPool, nlp \in NlpPool : \E rest \in RestPool(nlp) :
          DoSolutionRun(data, nlp, rest) /\ UNCHANGED <<history, solution_rules>>
    \/ \E data \in DataPool, nlp \in NlpPool : \E rest \in RestPool(nlp) :
          DoRun(data, nlp, rest) /\ UNCHANGED <<history, solution_rules>>
    \/ \E data \in DataPool, nlp \in NlpPool :
          DoApply(data, nlp) /\ UNCHANGED <<history, solution_rules>>

SpecSolution == InitApply /\ [][NextSolution]_vars

\* ------------------------------------------------------------------------
\* Labels: _create_label on bundles of known and unknown features, a
\* specification of its own
\* ------------------------------------------------------------------------
LabelKeys == { cat, num, class, <<"m", "o", "o", "d">> }

LabelValues == { agent, pl, NoneV }

\* The bundles of at most n features over these keys and values, in every
\* insertion order
LabelBundles(n) ==
    UNION { { b \in [1..k -> { Item(key, value) : key \in LabelKeys, value \in LabelValues }] :
                \A i, j \in 1..k : i # j => b[i].k # b[j].k }
            : k \in 0..n }

\* solution._create_label(features)
DoCreateLabel(features) ==
    /\ call' = [op |-> "create_label", features |-> features,
                result |-> CreateLabel(features)]
    /\ UNCHANGED <<rules, generator_rules, lexicon>>

NextLabel ==
    \/ \E features \in LabelBundles(MaxFeatures) :
          DoCreateLabel(features) /\ UNCHANGED <<history, solution_rules>>

SpecLabel == InitApply /\ [][NextLabel]_vars

\* ------------------------------------------------------------------------
\* Signatures: generate on targets whose values hold the characters the
\* signature is written with, a specification of its own
\* ------------------------------------------------------------------------
SignatureTargets ==
    TargetPool
    \cup { <<Item(cat, StrV(<<"a", "g", "e", "n", "t", "|", "n", "u", "m", "=", "p", "l">>))>>,
           <<Item(num, NoneV)>>,
           <<Item(num, StrV(<<"N", "o", "n", "e">>))>> }

InitSignature ==
    /\ rules \in TableRuleLists
    /\ generator_rules = GeneratorInit(rules)
    /\ lexicon = MorphLexicon
    /\ call = [op |-> "init"]
    /\ history = NoHistory
    /\ solution_rules = <<>>

NextSignature ==
    \/ \E l \in 1..Len(lexicon), target \in SignatureTargets :
          DoGenerate(l, target) /\ UNCHANGED <<history, solution_rules>>

SpecSignature == InitSignature /\ [][NextSignature]_vars

\* ------------------------------------------------------------------------
\* A session: generate, infer_paradigm and table calls in any order on one
\* solution, a fifth specification
\* ------------------------------------------------------------------------
InitSession ==
    /\ rules \in TableRuleLists
    /\ generator_rules = GeneratorInit(rules)
    /\ lexicon = MorphLexicon
    /\ call = [op |-> "init"]
    /\ history = NoHistory
    /\ solution_rules = <<>>

\* The history after a call of the given kind that is not a generate call
Since(kind) ==
    IF history.set THEN [history EXCEPT !.between = @ \cup {kind}] ELSE history

\* generator.generate(lexicon[l], target); the first such call is remembered
SessionGenerate(l, target) ==
    /\ DoGenerate(l, target)
    /\ history' = IF history.set THEN history
                  ELSE [set |-> TRUE, lemma |-> lexicon[l].k, target |-> target,
                        result |-> call'.result, between |-> {}]

SessionInferParadigm == DoInferParadigm /\ history' = Since("infer_paradigm")

SessionGetTable(lexeme_subset, format) ==
    DoGetTable(TestParadigm, lexeme_subset, format) /\ history' = Since("get_table")

SessionFormatTable(lexeme_subset, format) ==
    DoFormatTable(TestParadigm, lexeme_subset, format) /\ history' = Since("get_table")

SessionGetAutoTable(lexeme_subset, format) ==
    DoGetAutoTable(lexeme_subset, format) /\ history' = Since("get_table")

SessionSubsets == { Subset(<<hunt.lemma>>) }

NextSession ==
    \/ \E l \in 1..Len(lexicon), target \in TargetPool :
          SessionGenerate(l, target) /\ UNCHANGED solution_rules
    \/ SessionInferParadigm /\ UNCHANGED solution_rules
    \/ \E ls \in SessionSubsets, f \in Formats :
          SessionGetTable(ls, f) /\ UNCHANGED solution_rules
    \/ \E ls \in SessionSubsets, f \in Formats :
          SessionFormatTable(ls, f) /\ UNCHANGED solution_rules
    \/ \E ls \in SessionSubsets, f \in Formats :
          SessionGetAutoTable(ls, f) /\ UNCHANGED solution_rules

SpecSession == InitSession /\ [][NextSession]_vars

\* ------------------------------------------------------------------------
\* Properties of generate
\* ------------------------------------------------------------------------
\* The last call was generate and found the target's signature in irregular
IrregularHit ==
    /\ call.op = "generate"
    /\ HasKey(call.lexeme.irregular, Signature(call.target))

\* The last call was generate and went through the rule loop
RegularCall == call.op = "generate" /\ ~IrregularHit

\* The effective bundle's value for key k, from the call's arguments: the
\* target's when the target has the key, else the lexeme's default
EffectiveHas(k) == HasKey(call.target, k) \/ HasKey(call.lexeme.features, k)
EffectiveValue(k) ==
    IF HasKey(call.target, k) THEN DictGet(call.target, k)
    ELSE DictGet(call.lexeme.features, k)

\* Rule number i of self.rules fired in the last call: its apply was called
Fired(i) ==
    \/ \E j \in 1..Len(call.result.steps) : call.result.steps[j].rule = i
    \/ /\ call.result.raised
       /\ call.result.consulted # <<>>
       /\ call.result.consulted[Len(call.result.consulted)] = i

\* The position in the constructor's list of rule number i of self.rules
Declared(i) == CHOOSE j \in 1..Len(rules) : rules[j] = generator_rules[i]

\* C1: when the signature of the target bundle is a key of lexeme.irregular,
\* generate returns exactly the stored literal, raises nothing and neither
\* consults nor applies any rule.
C1_IrregularShortCircuit ==
    IrregularHit =>
        /\ ~call.result.raised
        /\ \E i \in 1..Len(call.lexeme.irregular) :
              /\ call.lexeme.irregular[i].k = Signature(call.target)
              /\ call.result.value = call.lexeme.irregular[i].v
        /\ call.result.consulted = <<>>
        /\ call.result.steps = <<>>

\* An irregular hit on a bundle for which a rule of the generator matches and
\* its apply would raise
C1_Witness ==
    /\ IrregularHit
    /\ \E i \in 1..Len(generator_rules) :
          /\ Applies(generator_rules[i], DictMerge(call.lexeme.features, call.target))
          /\ RuleApply(generator_rules[i], call.lexeme.stem,
                       DictMerge(call.lexeme.features, call.target)).raised

\* C2: without an irregular entry generate starts from the stem and applies
\* the matching rules in one forward pass, in ascending order, rules of equal
\* order in the order they were given to the constructor, each rule receiving
\* the surface the rules before it produced.
C2_OrderedForwardPass ==
    /\ Len(generator_rules) = Len(rules)
    /\ \A i \in 1..Len(rules) : \E j \in 1..Len(generator_rules) : generator_rules[j] = rules[i]
    /\ \A i, j \in 1..Len(generator_rules) :
          i < j =>
             \/ generator_rules[i].order < generator_rules[j].order
             \/ /\ generator_rules[i].order = generator_rules[j].order
                /\ Declared(i) < Declared(j)
    /\ RegularCall =>
          LET res == call.result
              n == Len(res.steps)
          IN /\ \A k \in 1..Len(res.consulted) : res.consulted[k] = k
             /\ ~res.raised => Len(res.consulted) = Len(generator_rules)
             /\ \A k \in 1..n : res.steps[k].rule \in 1..Len(res.consulted)
             /\ \A k \in 1..(n - 1) : res.steps[k].rule < res.steps[k + 1].rule
             /\ \A k \in 1..n :
                   res.steps[k].input = (IF k = 1 THEN call.lexeme.stem
                                         ELSE res.steps[k - 1].output)
             /\ \A k \in 1..n :
                   res.steps[k].output
                      = RuleApply(generator_rules[res.steps[k].rule], res.steps[k].input,
                                  DictMerge(call.lexeme.features, call.target)).value
             /\ ~res.raised =>
                   res.value = (IF n = 0 THEN call.lexeme.stem ELSE res.steps[n].output)

\* Two rules of equal order, given to the constructor after a rule of higher
\* order, both fired, the second on the output of the first
C2_Witness ==
    /\ RegularCall
    /\ ~call.result.raised
    /\ rules # generator_rules
    /\ \E k \in 1..(Len(call.result.steps) - 1) :
          /\ generator_rules[call.result.steps[k].rule].order
                = generator_rules[call.result.steps[k + 1].rule].order
          /\ call.result.steps[k].output # call.result.steps[k].input
          /\ call.result.steps[k + 1].output # call.result.steps[k + 1].input

\* C3: a rule fires exactly when every key/value pair of its when is a pair
\* of the effective bundle; keys outside when do not matter.
C3_FiresExactlyOnMatch ==
    RegularCall =>
        \A i \in 1..Len(call.result.consulted) :
            Fired(i) <=>
                \A w \in 1..Len(generator_rules[i].when) :
                    /\ EffectiveHas(generator_rules[i].when[w].k)
                    /\ EffectiveValue(generator_rules[i].when[w].k)
                          = generator_rules[i].when[w].v

\* C4: a rule whose when names a key the effective bundle lacks does not
\* fire, whatever value when stores under the key.
C4_MissingKeyNeverFires ==
    RegularCall =>
        \A i \in 1..Len(call.result.consulted) :
            (\E w \in 1..Len(generator_rules[i].when) :
                ~EffectiveHas(generator_rules[i].when[w].k))
            => ~Fired(i)

\* C8: the rules are matched against lexeme.features overridden by the
\* target, and the call leaves lexeme.features and the target as they were.
C8_TargetOverridesDefaults ==
    /\ lexicon = MorphLexicon
    /\ call.op = "generate" => call.target_after = call.target
    /\ RegularCall =>
          \A i \in 1..Len(call.result.consulted) :
              Fired(i) <=>
                  \A w \in 1..Len(generator_rules[i].when) :
                      EffectiveValue(generator_rules[i].when[w].k)
                         = generator_rules[i].when[w].v

\* A rule fired on a default of the lexeme the target does not mention and on
\* a key both define, where the lexeme's own value would not have matched
C8_Witness ==
    /\ RegularCall
    /\ \E i \in 1..Len(call.result.consulted) :
          /\ Fired(i)
          /\ \E w \in 1..Len(generator_rules[i].when) :
                LET k == generator_rules[i].when[w].k
                IN HasKey(call.lexeme.features, k) /\ ~HasKey(call.target, k)
          /\ \E w \in 1..Len(generator_rules[i].when) :
                LET k == generator_rules[i].when[w].k
                IN /\ HasKey(call.lexeme.features, k)
                   /\ HasKey(call.target, k)
                   /\ DictGet(call.lexeme.features, k) # DictGet(call.target, k)

\* ------------------------------------------------------------------------
\* Properties of lemma resolution and prompt handling
\* ------------------------------------------------------------------------
\* The last call was apply or run and the parser gave no confident lemma:
\* it returned no request at all, or one with the empty lemma
NoConfidentLemma ==
    /\ call.op \in {"apply", "run"}
    /\ (call.result.request.none \/ call.result.request.lemma = <<>>)

\* The last call was apply or run and the parser's lemma matched no lexicon
\* entry under any resolver variant
LemmaUnresolved ==
    /\ call.op \in {"apply", "run"}
    /\ ~call.result.request.none
    /\ call.result.request.lemma # <<>>
    /\ call.result.resolved = 0

\* C5: an unknown prompt falls through unchanged: apply and run return the
\* input and raise nothing when the parser yields no confident lemma or the
\* lemma resolves to no lexeme, with or without NLTK.
C5_UnknownPromptFallsThrough ==
    (NoConfidentLemma \/ LemmaUnresolved) =>
        /\ ~call.result.raised
        /\ call.result.value = call.data

\* The candidates of C9 for the last resolved lemma
C9_Exact == call.lemma
C9_SilentE == call.lemma \o <<"e">>
C9_Degeminated == SubSeq(call.lemma, 1, Len(call.lemma) - 1)
C9_SilentEAllowed == call.lemma # <<>> /\ call.lemma[Len(call.lemma)] \notin Vowels
C9_DegeminatedAllowed ==
    Len(call.lemma) >= 2 /\ call.lemma[Len(call.lemma)] = call.lemma[Len(call.lemma) - 1]

\* The lemma key of the lexeme the last resolve returned, "not found" as <<>>
\* with found = 0
C9_FoundKey == lexicon[call.found].k

\* C9: resolution returns the lexeme of the first lexicon key among the lemma,
\* the lemma plus "e" (last character no vowel) and the lemma without its last
\* character (last two characters equal), or not-found.
C9_ResolutionOrder ==
    call.op = "resolve" =>
        IF HasKey(lexicon, C9_Exact)
        THEN call.found # 0 /\ C9_FoundKey = C9_Exact
        ELSE IF C9_SilentEAllowed /\ HasKey(lexicon, C9_SilentE)
        THEN call.found # 0 /\ C9_FoundKey = C9_SilentE
        ELSE IF C9_DegeminatedAllowed /\ HasKey(lexicon, C9_Degeminated)
        THEN call.found # 0 /\ C9_FoundKey = C9_Degeminated
        ELSE call.found = 0

\* A lemma that is no key while both of its variants are: the silent-e one
\* is returned
C9_Witness ==
    /\ call.op = "resolve"
    /\ ~HasKey(lexicon, C9_Exact)
    /\ C9_SilentEAllowed /\ HasKey(lexicon, C9_SilentE)
    /\ C9_DegeminatedAllowed /\ HasKey(lexicon, C9_Degeminated)
    /\ call.found # 0
    /\ C9_FoundKey = C9_SilentE

\* ------------------------------------------------------------------------
\* Properties of paradigm inference
\* ------------------------------------------------------------------------
\* The first rule of self.rules whose when is the bundle of entry e
FirstCarrier(e) ==
    CHOOSE i \in 1..Len(generator_rules) :
        /\ DictEq(generator_rules[i].when, call.result[e].features)
        /\ \A j \in 1..(i - 1) : ~DictEq(generator_rules[j].when, call.result[e].features)

\* The claim C6 as stated: for every rule set, the empty one included, the
\* list infer_paradigm returns starts with ("base", {}).
C6_BaseAlwaysFirst ==
    call.op = "infer_paradigm" =>
        /\ call.result # <<>>
        /\ call.result[1] = Column(base, <<>>)

\* C6, amended: for every non-empty rule set the list infer_paradigm returns
\* starts with ("base", {}); for the empty rule set it is the empty list.
C6_BaseFirstUnlessNoRules ==
    call.op = "infer_paradigm" =>
        IF rules = <<>> THEN call.result = <<>>
        ELSE call.result # <<>> /\ call.result[1] = Column(base, <<>>)

\* A rule set whose first rule in order has an empty when, with further
\* entries after the base entry
C6_Witness ==
    /\ call.op = "infer_paradigm"
    /\ generator_rules # <<>>
    /\ generator_rules[1].when = <<>>
    /\ Len(call.result) >= 2
    /\ call.result[1] = Column(base, <<>>)

\* C7: no two entries have equal bundles; after the base entry there is
\* exactly one entry per distinct non-empty when, in the order (ascending
\* order, ties by declaration) of the first rule carrying it; the three
\* example rules give base, agent-sg, agent-pl, verb.
C7_OneEntryPerDistinctWhen ==
    call.op = "infer_paradigm" =>
        LET res == call.result
        IN /\ \A i, j \in 1..Len(res) : i # j => ~DictEq(res[i].features, res[j].features)
           /\ \A i \in 1..Len(res) : res[i].features = <<>> => i = 1
           /\ \A r \in 1..Len(generator_rules) :
                 generator_rules[r].when # <<>> =>
                    \E e \in 2..Len(res) : DictEq(res[e].features, generator_rules[r].when)
           /\ \A e \in 2..Len(res) :
                 /\ \E r \in 1..Len(generator_rules) :
                       DictEq(generator_rules[r].when, res[e].features)
                 /\ res[e].features = generator_rules[FirstCarrier(e)].when
           /\ \A e, f \in 2..Len(res) : e < f => FirstCarrier(e) < FirstCarrier(f)
           /\ rules = ExampleRules =>
                 [e \in 1..Len(res) |-> res[e].features]
                    = <<<<>>, agent_sg.when, agent_pl.when, verb_bare.when>>

\* Two rules whose when bundles are equal but were built in a different key
\* order, and a rule with an empty when: one entry for the pair, none for {}
C7_Witness ==
    /\ call.op = "infer_paradigm"
    /\ \E r, q \in 1..Len(generator_rules) :
          /\ r < q
          /\ generator_rules[r].when # generator_rules[q].when
          /\ DictEq(generator_rules[r].when, generator_rules[q].when)
    /\ \E r \in 1..Len(generator_rules) : generator_rules[r].when = <<>>
    /\ Len(call.result) = 2

\* ------------------------------------------------------------------------
\* Properties of the paradigm table
\* ------------------------------------------------------------------------
\* The last call built a table
TableBuilt == call.op \in {"get_table", "format_table", "get_auto_table"}

\* What generate gives for cell (r, j) of the last table: row r is the r-th
\* selected lexeme, column j + 1 the j-th feature combination
C10_Shown == LexemesToShow(lexicon, call.lexeme_subset, 1)
C10_Generated(r, j) ==
    Generate(generator_rules, lexicon[C10_Shown[r]].v, call.feature_combinations[j].features).res

\* C10: an error of generate for one cell puts the em dash in that cell
\* only; every other cell holds what generate returns for it, the numbers of
\* rows and columns stay, and the table call raises nothing.
C10_BadCellIsLocal ==
    TableBuilt =>
        /\ ~call.result.raised
        /\ (C10_Shown # <<>> /\ call.feature_combinations # <<>>) =>
              /\ Len(call.result.rows) = Len(C10_Shown)
              /\ \A r \in 1..Len(call.result.rows) :
                    /\ Len(call.result.rows[r]) = 1 + Len(call.feature_combinations)
                    /\ call.result.rows[r][1] = lexicon[C10_Shown[r]].k
                    /\ \A j \in 1..Len(call.feature_combinations) :
                          call.result.rows[r][j + 1]
                             = (IF C10_Generated(r, j).raised THEN <<EmDash>>
                                ELSE C10_Generated(r, j).value)
              /\ call.format = "json" => call.result.out.rows = call.result.rows

\* A row with a failed cell next to a cell a rule produced, and another row
\* whose cell in the failed column holds a generated form
C10_Witness ==
    /\ TableBuilt
    /\ \E r, q \in 1..Len(call.result.rows), j, k \in 1..Len(call.feature_combinations) :
          /\ C10_Generated(r, j).raised
          /\ call.result.rows[r][j + 1] = <<EmDash>>
          /\ ~C10_Generated(r, k).raised
          /\ C10_Generated(r, k).steps # <<>>
          /\ call.result.rows[r][k + 1] = C10_Generated(r, k).value
          /\ q # r
          /\ ~C10_Generated(q, j).raised
          /\ call.result.rows[q][j + 1] = C10_Generated(q, j).value

\* ------------------------------------------------------------------------
\* Properties of the paradigm table
\* ------------------------------------------------------------------------
\* The subset argument selects no entry of the lexicon
C11_SelectsNone ==
    \A i \in 1..Len(lexicon) :
        ~(call.lexeme_subset.none \/ InList(call.lexeme_subset.names, lexicon[i].k))

\* The documented empty result of the call's format
C11_EmptyResult ==
    IF call.format = "pretty" THEN PrettyOut(<<>>) ELSE JsonOut(<<>>, <<>>, 0)

\* C11: a get_table or format_table call whose feature-combination list is
\* empty, or whose lexeme_subset selects no lexicon entry, raises nothing and
\* returns "" for the pretty format and the object with columns [], rows []
\* and total_rows 0 for the json format.
C11_EmptyInputsGiveEmptyTable ==
    (TableBuilt /\ (call.feature_combinations = <<>> \/ C11_SelectsNone))
        => /\ ~call.result.raised
           /\ call.result.out = C11_EmptyResult

\* A format_table call for json whose subset names only a lemma absent from
\* a non-empty lexicon, with the three columns of the tests, returned the
\* empty object
C11_Witness ==
    /\ call.op = "format_table"
    /\ call.format = "json"
    /\ lexicon # <<>>
    /\ call.feature_combinations = TestParadigm
    /\ ~call.lexeme_subset.none
    /\ call.lexeme_subset.names # <<>>
    /\ C11_SelectsNone
    /\ call.result.out = JsonOut(<<>>, <<>>, 0)

\* The positions of the lexicon entries the call's lexeme_subset selects
C12_Selected ==
    { i \in 1..Len(lexicon) :
        call.lexeme_subset.none \/ InList(call.lexeme_subset.names, lexicon[i].k) }

\* The place of selected entry i among the selected entries, in lexicon order
C12_Rank(i) == Cardinality({ j \in C12_Selected : j <= i })

\* One row per selected entry, in lexicon order, each starting with the
\* lemma key, and total_rows counting the rows
C12_RowsFollowLexicon ==
    LET out == call.result.out
    IN /\ Len(out.rows) = Cardinality(C12_Selected)
       /\ \A i \in C12_Selected : out.rows[C12_Rank(i)][1] = lexicon[i].k
       /\ out.total_rows = Len(out.rows)

\* C12 as stated: every JSON table has exactly one row per selected lexicon
\* entry, in lexicon iteration order, each row starting with the lemma key,
\* and total_rows equals the number of rows.
C12_OneRowPerSelected ==
    (TableBuilt /\ call.format = "json" /\ ~call.result.raised)
        => C12_RowsFollowLexicon

\* C12 amended: every JSON table made from a non-empty feature-combination
\* list has exactly one row per selected lexicon entry, in lexicon iteration
\* order whatever the subset's order or repeats, each row starting with the
\* lemma key, and total_rows equals the number of rows; with an empty
\* combination list rows is empty and total_rows is 0.
C12_OneRowPerSelectedGivenColumns ==
    (TableBuilt /\ call.format = "json" /\ ~call.result.raised)
        => IF call.feature_combinations # <<>>
           THEN C12_RowsFollowLexicon
           ELSE call.result.out.rows = <<>> /\ call.result.out.total_rows = 0

\* A json table for the subset ["hunt", "paint"]: two rows, paint before
\* hunt as in the lexicon
C12_Witness ==
    /\ call.op = "get_table"
    /\ call.format = "json"
    /\ call.feature_combinations = TestParadigm
    /\ lexicon = MorphLexicon
    /\ call.lexeme_subset = Subset(<<hunt.lemma, paint.lemma>>)
    /\ Len(call.result.out.rows) = 2
    /\ call.result.out.rows[1][1] = paint.lemma
    /\ call.result.out.rows[2][1] = hunt.lemma
    /\ call.result.out.total_rows = 2

\* ------------------------------------------------------------------------
\* Properties of a session
\* ------------------------------------------------------------------------
\* The last call is a generate call with the arguments of the first one
C13_Repeated ==
    /\ call.op = "generate"
    /\ history.set
    /\ call.lexeme.lemma = history.lemma
    /\ call.target = history.target

\* C13: after any sequence of generate, infer_paradigm and table calls, a
\* generate call with the arguments of the first generate call has the
\* outcome of that first call, and the generator's rule list (with every
\* rule's when) and the lexicon (every lexeme's stem, features and irregular
\* table) are as the constructor left them.
C13_GenerateIsRepeatable ==
    /\ generator_rules = GeneratorInit(rules)
    /\ lexicon = MorphLexicon
    /\ C13_Repeated => call.result = history.result

\* generate(hunt, {}) was called first, then infer_paradigm and a table call
\* were made, and the last call, generate(hunt, {}) again, gave "zingel"
\* under a rule list in which a rule fires
C13_Witness ==
    /\ C13_Repeated
    /\ history.between = {"infer_paradigm", "get_table"}
    /\ call.lexeme.lemma = hunt.lemma
    /\ call.target = <<>>
    /\ rules = ExampleRules
    /\ ~call.result.raised
    /\ call.result.value = hunt.stem

\* ------------------------------------------------------------------------
\* Properties of the rule kinds
\* ------------------------------------------------------------------------
\* What the claim says a rule returns when its when is satisfied
C14_Edited ==
    LET rule == call.rule
        surface == call.surface
    IN CASE rule.kind = "prefix" -> Ret(rule.prefix \o surface)
         [] rule.kind = "suffix" -> Ret(surface \o rule.suffix)
         [] rule.kind = "circumfix" -> Ret(rule.pre \o surface \o rule.post)
         [] rule.kind = "template" -> Ret(StrReplace(rule.template, STEM, surface))
         [] rule.kind = "rewrite" -> ReSub(rule.pattern, rule.repl, surface)

\* generate with the three example rules on a lexeme without irregular forms
C14_Examples ==
    (call.op = "generate" /\ rules = ExampleRules /\ call.lexeme.irregular = <<>>)
        => /\ call.target = <<Item(cat, verb)>>
                => call.result = GenResult(FALSE, call.lexeme.stem \o <<"a">>,
                                           call.result.consulted, call.result.steps)
           /\ DictEq(call.target, <<Item(cat, agent), Item(num, sg)>>)
                => call.result.value = <<"u", "m">> \o call.lexeme.stem \o <<"i">>
           /\ DictEq(call.target, <<Item(cat, agent), Item(num, pl)>>)
                => call.result.value = <<"a", "b", "a">> \o call.lexeme.stem \o <<"i">>
           /\ (call.lexeme.lemma = paint.lemma /\ call.target = <<Item(cat, verb)>>)
                => call.result.value = <<"d", "w", "e", "b", "a">>
           /\ (call.lexeme.lemma = carve.lemma /\ call.target = <<Item(cat, verb)>>)
                => call.result.value = <<"b", "a", "z", "a">>
           /\ (call.lexeme.lemma = hunt.lemma
               /\ call.target = <<Item(cat, agent), Item(num, sg)>>)
                => call.result.value = <<"u", "m", "z", "i", "n", "g", "e", "l", "i">>
           /\ (call.lexeme.lemma = kill.lemma
               /\ call.target = <<Item(cat, agent), Item(num, pl)>>)
                => call.result.value = <<"a", "b", "a", "b", "u", "l", "a", "l", "i">>

\* C14 as stated: apply returns the surface unchanged when the rule does not
\* apply to feats, and otherwise prefix+surface, surface+suffix,
\* pre+surface+post, the template with the placeholder replaced, or the
\* pattern-substituted surface, for every rule; and the example rules give
\* dweba, umzingeli, ababulali and baza.
C14_ApplyEditsByKind ==
    /\ call.op = "rule_apply"
         => call.result = IF Applies(call.rule, call.feats) THEN C14_Edited
                          ELSE Ret(call.surface)
    /\ C14_Examples

\* C14 amended: as stated, except that a Rewrite rule whose pattern is the
\* empty string returns the surface unchanged also when its when is
\* satisfied, instead of the surface with repl substituted at every empty
\* match.
C14_ApplyEditsByKindUnlessNoPattern ==
    /\ call.op = "rule_apply"
         => call.result =
              IF ~Applies(call.rule, call.feats) THEN Ret(call.surface)
              ELSE IF call.rule.kind = "rewrite" /\ call.rule.pattern = <<>>
                   THEN Ret(call.surface)
              ELSE C14_Edited
    /\ C14_Examples

\* The circumfix rule um...i was applied to "zingel" with the features
\* {cat: agent, num: sg} that satisfy it and returned "umzingeli"
C14_Witness ==
    /\ call.op = "rule_apply"
    /\ call.rule = agent_sg
    /\ call.surface = hunt.stem
    /\ call.feats = <<Item(cat, agent), Item(num, sg)>>
    /\ Applies(call.rule, call.feats)
    /\ call.result = Ret(<<"u", "m", "z", "i", "n", "g", "e", "l", "i">>)

\* ------------------------------------------------------------------------
\* Properties of reordering
\* ------------------------------------------------------------------------
\* The rule list with the rules at positions i and j exchanged
C15_Swapped(i, j) ==
    [k \in 1..Len(rules) |-> IF k = i THEN rules[j] ELSE IF k = j THEN rules[i] ELSE rules[k]]

\* What the caller of generate sees: the string returned, or the exception
C15_Outcome(res) == [raised |-> res.raised, value |-> res.value]

\* Rules i and j of the list have equal order and at most one of them
\* applies to the effective bundle of the call
C15_ExclusiveTie(i, j) ==
    /\ i < j
    /\ rules[i].order = rules[j].order
    /\ ~(/\ Applies(rules[i], DictMerge(call.lexeme.features, call.target))
         /\ Applies(rules[j], DictMerge(call.lexeme.features, call.target)))

\* generate of a Generator built from the list with i and j exchanged gives
\* what the call gave
C15_SameAfterSwap(i, j) ==
    C15_Outcome(Generate(GeneratorInit(C15_Swapped(i, j)), call.lexeme, call.target).res)
        = C15_Outcome(call.result)

\* No rule of the same order stands between positions i and j
C15_NoTieBetween(i, j) ==
    \A k \in 1..Len(rules) : (i < k /\ k < j) => rules[k].order # rules[i].order

\* C15 as stated: exchanging two rules of equal order in the list given to
\* the Generator does not change what generate returns, for every lexeme and
\* target on which at most one of the two applies.
C15_SwapOfExclusiveTies ==
    call.op = "generate"
        => \A i, j \in 1..Len(rules) : C15_ExclusiveTie(i, j) => C15_SameAfterSwap(i, j)

\* C15 amended: exchanging two rules of equal order between which the list
\* holds no further rule of that order does not change what generate
\* returns, for every lexeme and target on which at most one of the two
\* applies.
C15_SwapOfNeighbouringExclusiveTies ==
    call.op = "generate"
        => \A i, j \in 1..Len(rules) :
             (C15_ExclusiveTie(i, j) /\ C15_NoTieBetween(i, j)) => C15_SameAfterSwap(i, j)

\* generate(carve, {}) with the list [agent-pl, verb-bare, agent-sg]: the
\* two agent rules tie at order 10, only agent-sg applies and fired, and the
\* list with the two exchanged also gives "umbazi"
C15_Witness ==
    /\ call.op = "generate"
    /\ rules = <<agent_pl, verb_bare, agent_sg>>
    /\ call.lexeme.lemma = carve.lemma
    /\ call.target = <<>>
    /\ C15_ExclusiveTie(1, 3)
    /\ C15_NoTieBetween(1, 3)
    /\ Len(call.result.steps) = 1
    /\ call.result.value = <<"u", "m", "b", "a", "z", "i">>
    /\ C15_SameAfterSwap(1, 3)

\* ------------------------------------------------------------------------
\* Properties of the pretty table
\* ------------------------------------------------------------------------
\* A pretty table was built: rows were made and formatted as text
C16_PrettyTable ==
    /\ TableBuilt
    /\ call.format = "pretty"
    /\ ~call.result.raised
    /\ call.result.rows # <<>>

\* The greatest length among the header of column i and its cells
C16_Width(i) ==
    CHOOSE w \in { Len(call.result.headers[i]) }
                   \cup { Len(call.result.rows[r][i]) : r \in 1..Len(call.result.rows) } :
        /\ w >= Len(call.result.headers[i])
        /\ \A r \in 1..Len(call.result.rows) : w >= Len(call.result.rows[r][i])

\* The length of a line: one bar, then per column a space, the width, a
\* space and a bar
RECURSIVE C16_LineLength(_)
C16_LineLength(n) == IF n = 0 THEN 1 ELSE C16_LineLength(n - 1) + C16_Width(n) + 3

\* Line k of the text when every line is len characters long
C16_Line(k, len) ==
    SubSeq(call.result.out.text, (k - 1) * (len + 1) + 1, k * (len + 1) - 1)

\* The characters of column i in a line of cells: a space, the cell, spaces
\* up to the width, a space
C16_Field(line, i) ==
    SubSeq(line, C16_LineLength(i - 1) + 1, C16_LineLength(i) - 1)

\* text is left-aligned in the field: a space, the text, only spaces after
C16_LeftAligned(field, text) ==
    /\ Len(field) >= Len(text) + 2
    /\ field[1] = " "
    /\ SubSeq(field, 2, Len(text) + 1) = text
    /\ \A q \in Len(text) + 2..Len(field) : field[q] = " "

\* C16: the pretty text of a table with R data rows has R + 4 lines of one
\* length; each column is as wide as the longest of its header and cells,
\* and every header and cell stands left-aligned in a field of that width.
C16_PrettyTableShape ==
    C16_PrettyTable
        => LET text == call.result.out.text
               R == Len(call.result.rows)
               n == Len(call.result.headers)
               len == C16_LineLength(n)
           IN /\ Len(text) = (R + 4) * len + (R + 3)
              /\ \A q \in 1..Len(text) : (text[q] = "\n") <=> (q % (len + 1) = 0)
              /\ \A i \in 1..n :
                   /\ Len(C16_Field(C16_Line(2, len), i)) = C16_Width(i) + 2
                   /\ C16_LeftAligned(C16_Field(C16_Line(2, len), i), call.result.headers[i])
                   /\ \A r \in 1..R :
                        C16_LeftAligned(C16_Field(C16_Line(r + 3, len), i),
                                        call.result.rows[r][i])
              /\ \A k \in {1, 3, R + 4}, q \in 1..len : C16_Line(k, len)[q] # " "
              /\ \A k \in 1..R + 4, i \in 0..n :
                   C16_Line(k, len)[C16_LineLength(i)] \notin {" ", BoxH}

\* The table of the tests for the whole lexicon under the example rules:
\* three rows, seven lines, and the column "agent.sg" (8 characters) is 9
\* wide for "umzingeli"
C16_Witness ==
    /\ C16_PrettyTable
    /\ call.op = "get_table"
    /\ rules = ExampleRules
    /\ call.feature_combinations = TestParadigm
    /\ Len(call.result.rows) = 3
    /\ Len(call.result.headers[3]) = 8
    /\ call.result.rows[2][3] = <<"u", "m", "z", "i", "n", "g", "e", "l", "i">>
    /\ C16_Width(3) = 9
    /\ Cardinality({ q \in 1..Len(call.result.out.text) : call.result.out.text[q] = "\n" }) = 6

\* ------------------------------------------------------------------------
\* Properties of labels
\* ------------------------------------------------------------------------
\* The key of the bundle with exactly r - 1 keys below it
C17_KeyAt(r) ==
    CHOOSE k \in { call.features[i].k : i \in 1..Len(call.features) } :
        Cardinality({ i \in 1..Len(call.features) : StrLess(call.features[i].k, k) }) = r - 1

\* The token of a key and its value: the short code of the fixed table,
\* which for the key "class" is CL and the value, else key=value
C17_Token(key, value) ==
    IF \E t \in Abbrev : t.k = key /\ StrV(t.v) = value
    THEN (CHOOSE t \in Abbrev : t.k = key /\ StrV(t.v) = value).code
    ELSE IF key = class THEN <<"C", "L">> \o PyStr(value)
    ELSE key \o <<"=">> \o PyStr(value)

\* The bundle with its items inserted in the opposite order
C17_Reversed ==
    [i \in 1..Len(call.features) |-> call.features[Len(call.features) + 1 - i]]

\* C17: the label of the empty bundle is "base"; the label of any other
\* bundle is the "."-joined list of one token per key in lexicographic key
\* order, the short code for a pair of the abbreviation table and key=value
\* for an unknown key or value; it is the same for the bundle built in the
\* opposite order, and it is never "base".
C17_LabelFromContent ==
    call.op = "create_label"
        => /\ call.features = <<>> => call.result = base
           /\ call.features # <<>>
                => /\ call.result =
                        Join(<<".">>, [r \in 1..Len(call.features) |->
                            C17_Token(C17_KeyAt(r), DictGet(call.features, C17_KeyAt(r)))])
                   /\ call.result # base
           /\ CreateLabel(C17_Reversed) = call.result

\* The label of {num: pl, mood: None}, built with num first: the unknown key
\* mood comes first as mood=None, then the code PL
C17_Witness ==
    /\ call.op = "create_label"
    /\ call.features = <<Item(num, pl), Item(<<"m", "o", "o", "d">>, NoneV)>>
    /\ call.result = <<"m", "o", "o", "d", "=", "N", "o", "n", "e", ".", "P", "L">>

\* ------------------------------------------------------------------------
\* Properties of the signature
\* ------------------------------------------------------------------------
\* C18: two target bundles have the same signature exactly when they have
\* the same content (the same keys with the same values, in whatever order
\* they were built), so an irregular form is returned only for the bundle
\* whose signature it is stored under.
C18_SignatureIdentifiesBundle ==
    call.op = "generate"
        => /\ \A t \in SignatureTargets :
                (Signature(t) = Signature(call.target)) <=> DictEq(t, call.target)
           /\ IrregularHit
                => \A t \in SignatureTargets :
                     (/\ HasKey(call.lexeme.irregular, Signature(t))
                      /\ DictGet(call.lexeme.irregular, Signature(t)) = call.result.value)
                        => DictEq(t, call.target)

\* The part of C18 that holds: bundles of the same content built in a
\* different key order have the same signature
C18_SameContentSameSignature ==
    call.op = "generate"
        => \A t \in SignatureTargets :
             DictEq(t, call.target) => Signature(t) = Signature(call.target)

\* ------------------------------------------------------------------------
\* The worked example through a solution
\* ------------------------------------------------------------------------
\* Solution.run("to paint") with one RootedMorphRule added, NLTK answering
\* paint/VB, returned "dweba"
RunsAddedRule ==
    /\ call.op = "solution_run"
    /\ solution_rules = <<"RootedMorphRule">>
    /\ call.data = <<"t", "o", " ", "p", "a", "i", "n", "t">>
    /\ call.nlp = Tagged(<<"p", "a", "i", "n", "t">>, <<"V", "B">>)
    /\ call.result.value = <<"d", "w", "e", "b", "a">>

====
